---- MODULE Spec2Model ----
(***************************************************************************)
(* Model of src/api/index.py: the per-user token registry (user_tokens),   *)
(* the monitoring supervisor (monitoring_tasks, start_monitoring,          *)
(* stop_monitoring) and the polling loop of one token (monitor_token) with *)
(* its suspension points, as they run on one asyncio event loop.           *)
(*                                                                         *)
(* A coroutine runs without interruption between two awaits, so one action *)
(* is one such stretch of code.  handle_button_click awaits query.answer() *)
(* before it reads anything; from there each handler reads and changes the *)
(* shared dictionaries with no await in between and only then awaits the   *)
(* chat API with its answer, hence one action per handler.  The polling    *)
(* loop is cut at its three awaits (ping_server, get_position,             *)
(* bot.send_message).  A task that was cancelled is resumed with           *)
(* CancelledError, which ping_server and get_position do not catch         *)
(* (`except Exception`; CancelledError is a BaseException).                *)
(*                                                                         *)
(* fetch_positions awaits get_position once per entry of the user's list  *)
(* and is cut at these awaits.  The application handles one update at a    *)
(* time (no concurrent_updates, blocking handlers), so while it is         *)
(* suspended no other handler runs; the polling loops, which are tasks of  *)
(* their own, do.                                                          *)
(***************************************************************************)
EXTENDS Integers, Sequences, FiniteSets, Bags, TLC

(* ----------------------------- bounds ---------------------------------- *)
\* most tokens registered at a time, all users together
MaxTokens == 2
\* most asyncio tasks alive at a time
MaxTasks == 2
\* longest text message drawn in the specification of process_tokens alone
MaxTextLen == 3

(* ----------------------------- values ---------------------------------- *)
\* chat user ids (update.effective_user.id)
Users == {101, 202}

\* ConversationHandler states of the "add tokens" conversation
AWAITING_TOKENS == 0
END == -1

\* characters of a text message; a text and a token are sequences of them
Whitespace == {" ", "\t", "\n", "\r"}

\* JSON bodies a remote call can hand back, and None for "absent":
\*   type  - None, a dict or something else (a list)
\*   n     - number of members (Python truthiness: n > 0)
\*   key   - whether the field asked for ('status' / 'behind') is in the dict
NoneValue == [type |-> "None", n |-> 0, key |-> FALSE]
DictWithField == [type |-> "dict", n |-> 1, key |-> TRUE]
DictNoField == [type |-> "dict", n |-> 1, key |-> FALSE]
EmptyDict == [type |-> "dict", n |-> 0, key |-> FALSE]
ListValue == [type |-> "list", n |-> 1, key |-> FALSE]
JsonValues == {NoneValue, DictWithField, DictNoField, EmptyDict, ListValue}

VARIABLES
    user_tokens,        \* dict user_id -> list of tokens
    monitoring_tasks,   \* dict user_id -> list of tasks
    detached,           \* bag of the unfinished tasks no list refers to
    conv,               \* per user, the state of the add-tokens conversation
    out,                \* the last message handed to the chat API
    fetch               \* the run of fetch_positions in flight, if any

vars == <<user_tokens, monitoring_tasks, detached, conv, out, fetch>>

(* ------------------------- pure functions ------------------------------ *)
\* the last n elements of s (s[-n:])
Suffix(s, n) == IF Len(s) <= n THEN s ELSE SubSeq(s, Len(s) - n + 1, Len(s))

format_token(token) ==
    IF Len(token) > 6 THEN <<".", ".", ".">> \o Suffix(token, 6) ELSE token

\* str.split('\n'): the pieces between the newlines, empty pieces kept
RECURSIVE SplitFrom(_, _, _)
SplitFrom(text, i, cur) ==
    IF i > Len(text) THEN <<cur>>
    ELSE IF text[i] = "\n" THEN <<cur>> \o SplitFrom(text, i + 1, <<>>)
    ELSE SplitFrom(text, i + 1, Append(cur, text[i]))

Split(text) == SplitFrom(text, 1, <<>>)

\* str.strip(): leading and trailing whitespace removed
RECURSIVE LStrip(_)
LStrip(s) ==
    IF s # <<>> /\ Head(s) \in Whitespace THEN LStrip(Tail(s)) ELSE s

RECURSIVE RStrip(_)
RStrip(s) ==
    IF s # <<>> /\ s[Len(s)] \in Whitespace
    THEN RStrip(SubSeq(s, 1, Len(s) - 1)) ELSE s

Strip(s) == RStrip(LStrip(s))

\* [t.strip() for t in text.split('\n') if t.strip()]
RECURSIVE StripNonEmpty(_)
StripNonEmpty(parts) ==
    IF parts = <<>> THEN <<>>
    ELSE IF Strip(Head(parts)) # <<>>
         THEN <<Strip(Head(parts))>> \o StripNonEmpty(Tail(parts))
         ELSE StripNonEmpty(Tail(parts))

\* [t for t in text.split('\n') if t.strip()]: the entries kept untrimmed
RECURSIVE NonEmptyUntrimmed(_)
NonEmptyUntrimmed(parts) ==
    IF parts = <<>> THEN <<>>
    ELSE IF Strip(Head(parts)) # <<>>
         THEN <<Head(parts)>> \o NonEmptyUntrimmed(Tail(parts))
         ELSE NonEmptyUntrimmed(Tail(parts))

ParseTokens_untrimmed(text) == NonEmptyUntrimmed(Split(text))

ParseTokens(text) == StripNonEmpty(Split(text))

\* user_tokens.get(user_id, [])
TokensOf(ut, u) == IF u \in DOMAIN ut THEN ut[u] ELSE <<>>

\* dict with key u set to v
DictSet(d, u, v) == [x \in DOMAIN d \cup {u} |-> IF x = u THEN v ELSE d[x]]

\* dict with key u deleted
DictDel(d, u) == [x \in DOMAIN d \ {u} |-> d[x]]

\* list.pop(index) for 0 <= index < len: the list without that entry
Pop(s, index) == SubSeq(s, 1, index) \o SubSeq(s, index + 2, Len(s))

(* ------------------------- remote results ------------------------------ *)
\* Python truthiness of a result (`if ping_data`)
Truthy(v) == v.type # "None" /\ v.n > 0

\* data.get(...) raises AttributeError when data is truthy and no dict
GetRaises(v) == Truthy(v) /\ v.type # "dict"

\* data.get(key, 'N/A') if data else 'Error'
StatusField(v) ==
    IF Truthy(v) THEN (IF v.key THEN "value" ELSE "N/A") ELSE "Error"

\* position.get('behind', 'Error') if position else 'Error'
BehindField(v) ==
    IF Truthy(v) THEN (IF v.key THEN "value" ELSE "Error") ELSE "Error"

(* ----------------------------- messages -------------------------------- *)
\* a message handed to the chat API (send_message, edit_message_text,
\* reply_text): the receiver, the fixed text, and what is formatted into it
\* (token, the two status fields, the two counts, the lines of a position
\* list), and the input of the update it answers (the submitted text)
Msg(to, text, token, a, b, n, total) ==
    [to |-> to, text |-> text, token |-> token, a |-> a, b |-> b,
     n |-> n, total |-> total, in_text |-> <<>>, lines |-> <<>>]

Plain(to, text) == Msg(to, text, <<>>, "", "", 0, 0)

NoMsg == Plain(0, "")

\* the texts of the messages
SendTokensText == "Send tokens (one per line)"
NoValidText == "No valid tokens found."
AddedText == "Added {n} tokens Total: {total}"
CancelledText == "Operation cancelled"
RemovedText == "Removed token: {token}"
InvalidText == "Invalid token selection"
AlreadyText == "Monitoring already running"
StartedText == "Started continuous monitoring for all tokens"
StoppedText == "Stopped monitoring"
NoActiveText == "No active monitoring"
StatusText == "Status Update: {token} Status: {a} Position: {b}"
CrashText == "Monitoring crashed for {token} - restart required"
NoTokensText == "No tokens registered"
PositionsText == "Current Positions: {lines}"

(* ------------------------------ tasks ---------------------------------- *)
\* A task is the record of one run of monitor_token.  monitoring_tasks holds
\* the tasks of the running sessions; a task that stop_monitoring dropped
\* from the dict lives on in `detached` until the event loop has resumed it
\* for the last time (a finished task nothing refers to is freed).
\* pc of a task: where its coroutine is suspended, or how it ended
\*   "created"   scheduled by create_task, not yet run
\*   "ping"      awaiting ping_server(token)
\*   "position"  awaiting get_position(token)
\*   "send"      awaiting bot.send_message(...) of the status update
\*   "returned"  monitor_token returned (after catching CancelledError)
\*   "cancelled" CancelledError left the coroutine (cancelled before it ran)
\*   "exception" an exception left the coroutine
Suspended == {"created", "ping", "position", "send"}
Finished == {"returned", "cancelled", "exception"}

NewTask(u, token) ==
    [user_id |-> u, token |-> token, pc |-> "created", must_cancel |-> FALSE,
     ping_data |-> NoneValue, a |-> "", b |-> "",
     fault |-> FALSE, notices |-> 0]

\* asyncio.create_task(monitor_token(bot, user_id, token)) for each token
NewTasks(u, tokens) == [i \in 1..Len(tokens) |-> NewTask(u, tokens[i])]

\* task.cancel(): a finished task ignores it
CancelTask(task) ==
    IF task.pc \in Finished THEN task ELSE [task EXCEPT !.must_cancel = TRUE]

\* the bag of the tasks of list s that are still to be resumed, cancelled
RECURSIVE CancelAll(_)
CancelAll(s) ==
    IF s = <<>> THEN EmptyBag
    ELSE IF Head(s).pc \in Finished THEN CancelAll(Tail(s))
    ELSE SetToBag({CancelTask(Head(s))}) (+) CancelAll(Tail(s))

\* number of tasks alive
RECURSIVE SumLen(_, _)
SumLen(d, us) ==
    IF us = {} THEN 0
    ELSE LET u == CHOOSE x \in us : TRUE
         IN Len(d[u]) + SumLen(d, us \ {u})

LiveTasks == SumLen(monitoring_tasks, DOMAIN monitoring_tasks)
                 + BagCardinality(detached)

\* handle_button_click: a user seen for the first time gets an empty list
EnsureUser(ut, u) == IF u \in DOMAIN ut THEN ut ELSE DictSet(ut, u, <<>>)

(* --------------------------- token registry ---------------------------- *)
\* user_tokens.setdefault(user_id, []).extend(tokens)
ExtendTokens(ut, u, tokens) == DictSet(ut, u, TokensOf(ut, u) \o tokens)

\* handle_button_click, query.data == "add_tokens": the prompt is shown and
\* the conversation waits for the text
add_tokens_click(u) ==
    /\ user_tokens' = EnsureUser(user_tokens, u)
    /\ conv' = [conv EXCEPT ![u] = AWAITING_TOKENS]
    /\ out' = Plain(u, SendTokensText)
    /\ UNCHANGED <<monitoring_tasks, detached, fetch>>

\* process_tokens: the text message that follows the prompt
process_tokens(u, text) ==
    /\ conv[u] = AWAITING_TOKENS
    /\ LET tokens == ParseTokens(text) IN
         IF tokens = <<>>
         THEN /\ out' = [Plain(u, NoValidText) EXCEPT !.in_text = text]
              /\ UNCHANGED user_tokens
         ELSE /\ user_tokens' = ExtendTokens(user_tokens, u, tokens)
              /\ out' = [Msg(u, AddedText, <<>>, "", "", Len(tokens),
                             Len(user_tokens'[u])) EXCEPT !.in_text = text]
    /\ conv' = [conv EXCEPT ![u] = END]
    /\ UNCHANGED <<monitoring_tasks, detached, fetch>>

\* cancel: the /cancel command, a fallback of the conversation
cancel(u) ==
    /\ conv[u] = AWAITING_TOKENS
    /\ conv' = [conv EXCEPT ![u] = END]
    /\ out' = Plain(u, CancelledText)
    /\ UNCHANGED <<user_tokens, monitoring_tasks, detached, fetch>>

\* handle_token_actions that also stops watching the removed token: the
\* task at that place of a running session is cancelled and forgotten
handle_token_actions_untrack(u, index) ==
    /\ LET ut == EnsureUser(user_tokens, u)
           tokens == TokensOf(ut, u)
           mine == TokensOf(monitoring_tasks, u)
       IN IF 0 <= index /\ index < Len(tokens)
          THEN /\ user_tokens' = [ut EXCEPT ![u] = Pop(tokens, index)]
               /\ out' = Msg(u, RemovedText, format_token(tokens[index + 1]),
                             "", "", 0, 0)
               /\ IF index < Len(mine)
                  THEN /\ monitoring_tasks' =
                              [monitoring_tasks EXCEPT ![u] = Pop(mine, index)]
                       /\ detached' =
                              detached (+) CancelAll(<<mine[index + 1]>>)
                  ELSE UNCHANGED <<monitoring_tasks, detached>>
          ELSE /\ user_tokens' = ut
               /\ out' = Plain(u, InvalidText)
               /\ UNCHANGED <<monitoring_tasks, detached>>
    /\ UNCHANGED <<conv, fetch>>

\* handle_token_actions with `index < len(tokens)` as its only test: a
\* negative index reaches list.pop, which counts it from the end
handle_token_actions_negative(u, index) ==
    /\ LET ut == EnsureUser(user_tokens, u)
           tokens == TokensOf(ut, u)
           at == IF index < 0 THEN Len(tokens) + index ELSE index
       IN IF index < Len(tokens) /\ 0 <= at
          THEN /\ user_tokens' = [ut EXCEPT ![u] = Pop(tokens, at)]
               /\ out' = Msg(u, RemovedText, format_token(tokens[at + 1]),
                             "", "", 0, 0)
          ELSE /\ user_tokens' = ut
               /\ out' = Plain(u, InvalidText)
    /\ UNCHANGED <<monitoring_tasks, detached, conv, fetch>>

\* handle_button_click with query.data == "remove_<index>", then
\* handle_token_actions
handle_token_actions(u, index) ==
    /\ LET ut == EnsureUser(user_tokens, u)
           tokens == TokensOf(ut, u)
       IN IF 0 <= index /\ index < Len(tokens)
          THEN /\ user_tokens' = [ut EXCEPT ![u] = Pop(tokens, index)]
               /\ out' = Msg(u, RemovedText, format_token(tokens[index + 1]),
                             "", "", 0, 0)
          ELSE /\ user_tokens' = ut
               /\ out' = Plain(u, InvalidText)
    /\ UNCHANGED <<monitoring_tasks, detached, conv, fetch>>

(* --------------------------- position list ----------------------------- *)
\* no run of fetch_positions is in flight
NoFetch == [user_id |-> 0, idx |-> 0, token |-> <<>>, response |-> <<>>]

\* A run of fetch_positions suspended in get_position: the user, the token
\* being asked for, idx, the number of entries the `for` has taken from the
\* list, and the lines appended to `response` so far (display, position).

\* handle_button_click with query.data == "position", then fetch_positions
\* up to its first await: the answer for an empty list, or the first entry
\* of the list is taken and get_position awaited
fetch_positions(u) ==
    /\ fetch = NoFetch
    /\ user_tokens' = EnsureUser(user_tokens, u)
    /\ IF TokensOf(user_tokens, u) = <<>>
       THEN /\ out' = Plain(u, NoTokensText)
            /\ UNCHANGED fetch
       ELSE /\ fetch' = [user_id |-> u, idx |-> 1,
                         token |-> user_tokens[u][1], response |-> <<>>]
            /\ UNCHANGED out
    /\ UNCHANGED <<monitoring_tasks, detached, conv>>

\* get_position returned r to fetch_positions: the line is appended (a
\* truthy result that is no dict raises, which ends the handler without a
\* message); then the `for` takes the next entry of the list as it is now,
\* if its index is below the length, and get_position is awaited again;
\* else the lines are sent
fetch_return(r) ==
    /\ fetch # NoFetch
    /\ IF GetRaises(r)
       THEN /\ fetch' = NoFetch
            /\ UNCHANGED out
       ELSE LET u == fetch.user_id
                response == Append(fetch.response,
                                   <<format_token(fetch.token),
                                     BehindField(r)>>)
            IN IF fetch.idx < Len(user_tokens[u])
               THEN /\ fetch' = [fetch EXCEPT
                                   !.idx = @ + 1,
                                   !.token = user_tokens[u][fetch.idx + 1],
                                   !.response = response]
                    /\ UNCHANGED out
               ELSE /\ fetch' = NoFetch
                    /\ out' = [Plain(u, PositionsText)
                                  EXCEPT !.lines = response]
    /\ UNCHANGED <<user_tokens, monitoring_tasks, detached, conv>>

(* ------------------------- monitor supervisor -------------------------- *)
\* start_monitoring without its `if user_id in monitoring_tasks` test: every
\* call spawns a loop per token, on top of the ones recorded
start_monitoring_respawn(u) ==
    /\ user_tokens' = EnsureUser(user_tokens, u)
    /\ monitoring_tasks' =
           DictSet(monitoring_tasks, u,
                   TokensOf(monitoring_tasks, u)
                       \o NewTasks(u, TokensOf(user_tokens, u)))
    /\ out' = Plain(u, StartedText)
    /\ UNCHANGED <<detached, conv, fetch>>

\* start_monitoring that refuses a user without tokens: "no tokens
\* registered" is answered and no session is recorded
start_monitoring_nonempty(u) ==
    /\ user_tokens' = EnsureUser(user_tokens, u)
    /\ IF u \in DOMAIN monitoring_tasks
       THEN /\ out' = Plain(u, AlreadyText)
            /\ UNCHANGED monitoring_tasks
       ELSE IF TokensOf(user_tokens, u) = <<>>
       THEN /\ out' = Plain(u, NoTokensText)
            /\ UNCHANGED monitoring_tasks
       ELSE /\ monitoring_tasks' =
                   DictSet(monitoring_tasks, u,
                           NewTasks(u, TokensOf(user_tokens, u)))
            /\ out' = Plain(u, StartedText)
    /\ UNCHANGED <<detached, conv, fetch>>

\* handle_button_click with query.data == "start_monitoring", then
\* start_monitoring
start_monitoring(u) ==
    /\ user_tokens' = EnsureUser(user_tokens, u)
    /\ IF u \in DOMAIN monitoring_tasks
       THEN /\ out' = Plain(u, AlreadyText)
            /\ UNCHANGED monitoring_tasks
       ELSE /\ monitoring_tasks' =
                   DictSet(monitoring_tasks, u,
                           NewTasks(u, TokensOf(user_tokens, u)))
            /\ out' = Plain(u, StartedText)
    /\ UNCHANGED <<detached, conv, fetch>>

\* stop_monitoring that ends the sessions of all users: every task of every
\* list is cancelled and the dict is cleared
stop_monitoring_all(u) ==
    /\ user_tokens' = EnsureUser(user_tokens, u)
    /\ IF u \in DOMAIN monitoring_tasks
       THEN /\ detached' =
                   detached (+) CancelAll(monitoring_tasks[u])
                            (+) BagUnion({CancelAll(monitoring_tasks[v]) :
                                    v \in DOMAIN monitoring_tasks \ {u}})
            /\ monitoring_tasks' = <<>>
            /\ out' = Plain(u, StoppedText)
       ELSE /\ out' = Plain(u, NoActiveText)
            /\ UNCHANGED <<monitoring_tasks, detached>>
    /\ UNCHANGED <<conv, fetch>>

\* stop_monitoring that also forgets the tokens of the stopped session
stop_monitoring_forget(u) ==
    /\ IF u \in DOMAIN monitoring_tasks
       THEN /\ detached' = detached (+) CancelAll(monitoring_tasks[u])
            /\ monitoring_tasks' = DictDel(monitoring_tasks, u)
            /\ user_tokens' = DictSet(user_tokens, u, <<>>)
            /\ out' = Plain(u, StoppedText)
       ELSE /\ user_tokens' = EnsureUser(user_tokens, u)
            /\ out' = Plain(u, NoActiveText)
            /\ UNCHANGED <<monitoring_tasks, detached>>
    /\ UNCHANGED <<conv, fetch>>

\* stop_monitoring that cancels the tasks and keeps the dict entry
stop_monitoring_keep(u) ==
    /\ user_tokens' = EnsureUser(user_tokens, u)
    /\ IF u \in DOMAIN monitoring_tasks
       THEN /\ monitoring_tasks' =
                   [monitoring_tasks EXCEPT ![u] =
                       [i \in DOMAIN @ |-> CancelTask(@[i])]]
            /\ out' = Plain(u, StoppedText)
       ELSE /\ out' = Plain(u, NoActiveText)
            /\ UNCHANGED monitoring_tasks
    /\ UNCHANGED <<detached, conv, fetch>>

\* handle_button_click with query.data == "stop_monitoring", then
\* stop_monitoring
stop_monitoring(u) ==
    /\ user_tokens' = EnsureUser(user_tokens, u)
    /\ IF u \in DOMAIN monitoring_tasks
       THEN /\ detached' = detached (+) CancelAll(monitoring_tasks[u])
            /\ monitoring_tasks' = DictDel(monitoring_tasks, u)
            /\ out' = Plain(u, StoppedText)
       ELSE /\ out' = Plain(u, NoActiveText)
            /\ UNCHANGED <<monitoring_tasks, detached>>
    /\ UNCHANGED <<conv, fetch>>

(* ---------------------------- polling loop ----------------------------- *)
\* monitor_token, `except Exception`: the log line formats
\* traceback.format_exc(), and the module never imports traceback, so the
\* handler itself raises NameError before its send_message: the task ends
\* with that exception and no notice is sent
except_Exception(task) ==
    [task EXCEPT !.pc = "exception", !.fault = TRUE]

\* monitor_token with CancelledError handled as a crash is: the notice is
\* sent before the coroutine returns
except_CancelledError_notify(task) ==
    [task EXCEPT !.pc = "returned", !.notices = @ + 1]

\* monitor_token, `except asyncio.CancelledError`: one log line, return
except_CancelledError(task) == [task EXCEPT !.pc = "returned"]

\* what a step of a task hands to the chat API: the crash notice when the
\* handler sent one, else nothing new
NoticeOut(old, new) ==
    IF new.notices > old.notices
    THEN Msg(new.user_id, CrashText, format_token(new.token), "", "", 0, 0)
    ELSE out

\* the first step of a task: monitor_token runs to its first await, inside
\* ping_server; a task cancelled before it ran ends at once
FirstStep(task) ==
    [task EXCEPT !.pc = IF task.must_cancel THEN "cancelled" ELSE "ping"]

\* monitor_token that gives the iteration up when the ping is absent: the
\* update is sent with "Error" twice and get_position is not called
AfterPing_skip(task, r) ==
    IF Truthy(r) THEN [task EXCEPT !.pc = "position", !.ping_data = r]
    ELSE [task EXCEPT !.pc = "send", !.a = "Error", !.b = "Error"]

\* ping_server returned r (None for a non-200 status or an exception)
AfterPing(task, r) == [task EXCEPT !.pc = "position", !.ping_data = r]

\* get_position returned r: the status text is formatted, which raises when
\* a result is truthy and no dict; then send_message is awaited
AfterPosition(task, r) ==
    IF GetRaises(task.ping_data) \/ GetRaises(r)
    THEN except_Exception(task)
    ELSE [task EXCEPT !.pc = "send",
                      !.a = StatusField(task.ping_data),
                      !.b = StatusField(r),
                      !.ping_data = NoneValue]

\* send_message returned: the next iteration awaits ping_server
AfterSend(task) == [task EXCEPT !.pc = "ping", !.a = "", !.b = ""]

\* the i-th task of u's session
TaskAt(u, i) == monitoring_tasks[u][i]

SetTask(u, i, new) == monitoring_tasks' = [monitoring_tasks EXCEPT ![u][i] = new]

IsTask(u, i) == u \in DOMAIN monitoring_tasks /\ i \in DOMAIN monitoring_tasks[u]

task_start(u, i) ==
    /\ IsTask(u, i)
    /\ TaskAt(u, i).pc = "created"
    /\ SetTask(u, i, FirstStep(TaskAt(u, i)))
    /\ UNCHANGED <<user_tokens, detached, conv, out, fetch>>

ping_return(u, i, r) ==
    /\ IsTask(u, i)
    /\ TaskAt(u, i).pc = "ping"
    /\ ~TaskAt(u, i).must_cancel
    /\ SetTask(u, i, AfterPing(TaskAt(u, i), r))
    /\ UNCHANGED <<user_tokens, detached, conv, out, fetch>>

\* get_position returned r, with a supervisor that clears the session of a
\* user once its last loop has ended by a fault
position_return_cleanup(u, i, r) ==
    /\ IsTask(u, i)
    /\ TaskAt(u, i).pc = "position"
    /\ ~TaskAt(u, i).must_cancel
    /\ LET new == AfterPosition(TaskAt(u, i), r)
           rest == {j \in DOMAIN monitoring_tasks[u] \ {i} :
                       monitoring_tasks[u][j].pc \notin Finished}
       IN /\ IF new.pc \in Finished /\ rest = {}
             THEN monitoring_tasks' = DictDel(monitoring_tasks, u)
             ELSE SetTask(u, i, new)
          /\ out' = NoticeOut(TaskAt(u, i), new)
    /\ UNCHANGED <<user_tokens, detached, conv, fetch>>

position_return(u, i, r) ==
    /\ IsTask(u, i)
    /\ TaskAt(u, i).pc = "position"
    /\ ~TaskAt(u, i).must_cancel
    /\ LET new == AfterPosition(TaskAt(u, i), r)
       IN /\ SetTask(u, i, new)
          /\ out' = NoticeOut(TaskAt(u, i), new)
    /\ UNCHANGED <<user_tokens, detached, conv, fetch>>

\* bot.send_message delivered the status update
send_ok(u, i) ==
    /\ IsTask(u, i)
    /\ TaskAt(u, i).pc = "send"
    /\ ~TaskAt(u, i).must_cancel
    /\ out' = Msg(TaskAt(u, i).user_id, StatusText,
                  format_token(TaskAt(u, i).token),
                  TaskAt(u, i).a, TaskAt(u, i).b, 0, 0)
    /\ SetTask(u, i, AfterSend(TaskAt(u, i)))
    /\ UNCHANGED <<user_tokens, detached, conv, fetch>>

\* send_message raising into the handler that awaits all loops of the user
\* together: the failure of one ends every loop of the session
send_fail_together(u, i) ==
    /\ IsTask(u, i)
    /\ TaskAt(u, i).pc = "send"
    /\ ~TaskAt(u, i).must_cancel
    /\ monitoring_tasks' =
           [monitoring_tasks EXCEPT ![u] =
               [j \in DOMAIN @ |-> except_Exception(@[j])]]
    /\ UNCHANGED <<user_tokens, detached, conv, out, fetch>>

\* bot.send_message raised (the chat platform rejected the message)
send_fail(u, i) ==
    /\ IsTask(u, i)
    /\ TaskAt(u, i).pc = "send"
    /\ ~TaskAt(u, i).must_cancel
    /\ LET new == except_Exception(TaskAt(u, i))
       IN /\ SetTask(u, i, new)
          /\ out' = NoticeOut(TaskAt(u, i), new)
    /\ UNCHANGED <<user_tokens, detached, conv, fetch>>

\* a cancelled task is resumed where `except Exception` of ping_server and
\* get_position catches CancelledError (as it does where CancelledError is
\* an Exception): the call returns None, the cancellation is used up and
\* the loop goes on, referred to by no list
cancelled_error_swallowed(task) ==
    /\ BagIn(task, detached)
    /\ task.must_cancel
    /\ LET on == [task EXCEPT !.must_cancel = FALSE]
           new == IF task.pc = "created" THEN FirstStep(task)
                  ELSE IF task.pc = "ping" THEN AfterPing(on, NoneValue)
                  ELSE IF task.pc = "position"
                       THEN AfterPosition(on, NoneValue)
                  ELSE except_CancelledError(task)
       IN /\ detached' =
                (detached (-) SetToBag({task}))
                    (+) (IF new.pc \in Finished THEN EmptyBag
                         ELSE SetToBag({new}))
          /\ out' = NoticeOut(task, new)
    /\ UNCHANGED <<user_tokens, monitoring_tasks, conv, fetch>>

\* a cancelled task is resumed: before its first step CancelledError leaves
\* the coroutine at once, at an await it is raised there and caught by
\* monitor_token; either way the task is finished and freed
cancelled_error(task) ==
    /\ BagIn(task, detached)
    /\ task.must_cancel
    /\ LET new == IF task.pc = "created" THEN FirstStep(task)
                  ELSE except_CancelledError(task)
       IN /\ new.pc \in Finished
          /\ detached' = detached (-) SetToBag({task})
          /\ out' = NoticeOut(task, new)
    /\ UNCHANGED <<user_tokens, monitoring_tasks, conv, fetch>>

(* --------------------------- specifications ---------------------------- *)
\* the token texts users submit
LongToken == <<"a", "a", "a", "a", "1", "1", "1", "1">>
ShortToken == <<"b", "2">>
MainTexts ==
    { LongToken,
      ShortToken,
      <<" ", "\n", " ">>,
      <<" ">> \o ShortToken \o <<" ", "\n", "\n">> \o ShortToken }

\* the results the remote service hands to a polling loop: ping_server's
\* is kept over an await, so two of them keep the model small
PingResults == {NoneValue, DictWithField}
PositionResults == JsonValues

\* the state after the module is loaded
Init ==
    /\ user_tokens = <<>>
    /\ monitoring_tasks = <<>>
    /\ detached = EmptyBag
    /\ conv = [u \in Users |-> END]
    /\ out = NoMsg
    /\ fetch = NoFetch

TotalTokens == SumLen(user_tokens, DOMAIN user_tokens)

\* the registry commands of the users
RegistryCommands(users, texts) ==
    \E u \in users :
        \/ add_tokens_click(u)
        \/ \E text \in texts :
              /\ TotalTokens + Len(ParseTokens(text)) <= MaxTokens
              /\ process_tokens(u, text)
        \/ cancel(u)
        \/ \E index \in -1..MaxTokens : handle_token_actions(u, index)

\* the monitoring commands of the users
MonitorCommands(users) ==
    \E u \in users :
        \/ /\ (u \in DOMAIN monitoring_tasks
                 \/ LiveTasks + Len(TokensOf(user_tokens, u)) <= MaxTasks)
           /\ start_monitoring(u)
        \/ stop_monitoring(u)

\* the steps of the polling loops, the remote service answering from
\* `pings` and `positions`
Loops(pings, positions) ==
    \/ \E u \in Users : \E i \in 1..MaxTasks :
          \/ task_start(u, i)
          \/ \E r \in pings : ping_return(u, i, r)
          \/ \E r \in positions : position_return(u, i, r)
          \/ send_ok(u, i)
          \/ send_fail(u, i)
    \/ \E task \in BagToSet(detached) : cancelled_error(task)

\* Spec: the supervisor and the polling loops of both users.  The users
\* have registered their tokens before (each registry below is one the
\* add command produces) and now start and stop monitoring while the loops
\* run against a remote service that answers in every way.
Registries ==
    { <<>>,
      (101 :> <<LongToken, ShortToken>>) @@ (202 :> <<LongToken>>),
      (101 :> <<ShortToken, ShortToken>>) @@ (202 :> <<>>),
      (101 :> <<ShortToken>>) @@ (202 :> <<LongToken>>) }

InitRegistered ==
    /\ user_tokens \in Registries
    /\ monitoring_tasks = <<>>
    /\ detached = EmptyBag
    /\ conv = [u \in Users |-> END]
    /\ out = NoMsg
    /\ fetch = NoFetch

Next ==
    \/ MonitorCommands(Users)
    \/ Loops(PingResults, PositionResults)

Spec == InitRegistered /\ [][Next]_vars

\* SpecFair: the supervisor and the loops of both users with the scheduling
\* of the event loop.  task.cancel() puts the task on the loop's ready
\* queue, which is served first in, first out, so a cancelled task of a
\* user that waits to be resumed is resumed.  Nothing is assumed of the
\* remote service or the chat API: a call may never return, and one that
\* returns comes back absent.
Resume(u) ==
    \E task \in BagToSet(detached) :
        task.user_id = u /\ cancelled_error(task)

NextFair ==
    \/ MonitorCommands(Users)
    \/ Loops({NoneValue}, {NoneValue})

SpecFair ==
    InitRegistered /\ [][NextFair]_vars /\ \A u \in Users : WF_vars(Resume(u))

\* SpecAbsent: every command of one user, from the initial state, while the
\* loops run against a remote service whose every call comes back absent
NextAbsent ==
    \/ RegistryCommands({101}, MainTexts)
    \/ MonitorCommands({101})
    \/ Loops({NoneValue}, {NoneValue})

SpecAbsent == Init /\ [][NextAbsent]_vars

\* SpecUsers: two users side by side.  Both have registered tokens before
\* (as in Spec) and start and stop monitoring; user 101 also adds and
\* removes tokens meanwhile; the loops run against a remote service whose
\* every call comes back absent.
NextUsers ==
    \/ RegistryCommands({101}, {ShortToken})
    \/ MonitorCommands(Users)
    \/ Loops({NoneValue}, {NoneValue})

SpecUsers == InitRegistered /\ [][NextUsers]_vars

\* the application built with concurrent_updates(True): an update is handed
\* to its handler while the handler of another is suspended
Dispatching_concurrent == TRUE

\* The application is built without concurrent_updates and every handler
\* is registered blocking, so the next update is handed to its handler when
\* the handler of the one before has returned: a command runs while no
\* handler is suspended.  Tasks made by create_task run on regardless.
Dispatching == fetch = NoFetch

\* SpecFetch: the registry commands and the position list of both users,
\* get_position answering the position list in every way
NextFetch ==
    \/ /\ Dispatching
       /\ \/ RegistryCommands(Users, MainTexts)
          \/ \E u \in Users : fetch_positions(u)
    \/ \E r \in PositionResults : fetch_return(r)

SpecFetch == Init /\ [][NextFetch]_vars

\* SpecRegistry: the registry commands of both users, from the initial state
NextRegistry == RegistryCommands(Users, MainTexts)

SpecRegistry == Init /\ [][NextRegistry]_vars

\* SpecAdd: process_tokens alone, applied to every text of up to MaxTextLen
\* characters by a user who was prompted for it, on each of the registries
TextChars == {"a", "b", " ", "\t", "\n"}

Texts == UNION {[1..n -> TextChars] : n \in 0..MaxTextLen}

InitAdd ==
    /\ user_tokens \in Registries
    /\ monitoring_tasks = <<>>
    /\ detached = EmptyBag
    /\ \E u \in Users :
          conv = [v \in Users |-> IF v = u THEN AWAITING_TOKENS ELSE END]
    /\ out = NoMsg
    /\ fetch = NoFetch

NextAdd == \E u \in Users : \E text \in Texts : process_tokens(u, text)

SpecAdd == InitAdd /\ [][NextAdd]_vars

(* ------------------------------ claims --------------------------------- *)
\* a user's session is Running while the user is a key of monitoring_tasks
Running(u) == u \in DOMAIN monitoring_tasks

\* the handles recorded for u: the (owner, token) of each task, in order
Handles(mt, u) ==
    [i \in DOMAIN TokensOf(mt, u) |->
        <<TokensOf(mt, u)[i].user_id, TokensOf(mt, u)[i].token>>]

\* the tasks of list s that are not finished
Unfinished(s) == {i \in DOMAIN s : s[i].pc \notin Finished}

\* C1: startMonitoring on a user whose session is Running spawns no loop,
\* leaves the recorded handles as they are and answers "already running";
\* and while a user stays Running no step of any command or loop adds or
\* drops a handle of that user.
C1_StartIdempotent ==
    [][\A u \in Users :
          /\ (Running(u) /\ start_monitoring(u)) =>
                /\ monitoring_tasks' = monitoring_tasks
                /\ detached' = detached
                /\ out' = Plain(u, AlreadyText)
          /\ (Running(u) /\ u \in DOMAIN monitoring_tasks') =>
                Handles(monitoring_tasks', u) = Handles(monitoring_tasks, u)
      ]_vars

\* C1 witness: "already running" was answered to a user with two handles,
\* one of them in the middle of an iteration
C1_Witness ==
    /\ out = Plain(101, AlreadyText)
    /\ Running(101)
    /\ Len(monitoring_tasks[101]) = 2
    /\ \E i \in 1..2 : monitoring_tasks[101][i].pc = "send"

\* C2: stopMonitoring on a Running session requests the cancellation of
\* every unfinished handle of the session (each moves, cancelled, to the
\* tasks still to be resumed; nothing else does), leaves the user Idle with
\* no handle and answers "stopped"; on an Idle user it changes nothing and
\* answers "no active monitoring".
C2_StopCancelsAll ==
    [][\A u \in Users :
          stop_monitoring(u) =>
             IF Running(u)
             THEN /\ u \notin DOMAIN monitoring_tasks'
                  /\ Handles(monitoring_tasks', u) = <<>>
                  /\ \A v \in Users \ {u} :
                        TokensOf(monitoring_tasks', v)
                            = TokensOf(monitoring_tasks, v)
                  /\ BagCardinality(detached') =
                        BagCardinality(detached)
                            + Cardinality(Unfinished(monitoring_tasks[u]))
                  /\ \A i \in Unfinished(monitoring_tasks[u]) :
                        BagIn([monitoring_tasks[u][i]
                                  EXCEPT !.must_cancel = TRUE], detached')
                  /\ \A task \in BagToSet(detached') : task.must_cancel
                  /\ out' = Plain(u, StoppedText)
             ELSE /\ monitoring_tasks' = monitoring_tasks
                  /\ detached' = detached
                  /\ out' = Plain(u, NoActiveText)
      ]_vars

\* C2 witness: a second stop was answered "no active monitoring" while a
\* cancelled loop of the stopped session is still waiting to be resumed
C2_Witness ==
    /\ out = Plain(101, NoActiveText)
    /\ ~Running(101)
    /\ \E task \in BagToSet(detached) :
          task.user_id = 101 /\ task.must_cancel /\ task.pc = "position"

\* the places of the running sessions' tasks
Places == {<<u, i>> \in Users \X (1..MaxTasks) : IsTask(u, i)}

\* C3 (as claimed): a loop that hit an unexpected error has sent exactly one
\* crash notice and has ended without an unhandled error.
C3_CrashNotifiedOnce ==
    \A p \in Places :
        TaskAt(p[1], p[2]).fault =>
            /\ TaskAt(p[1], p[2]).notices = 1
            /\ TaskAt(p[1], p[2]).pc = "returned"

\* C4: on the step on which one loop ends by a fault, every other task of
\* every session is left exactly as it was (so each other loop is still
\* suspended where it was, uncancelled, with its next step to take), the
\* set of users with a session and the handles recorded for them are
\* unchanged, and no task is cancelled.
C4_CrashIsolated ==
    [][\A p \in Places :
          (~TaskAt(p[1], p[2]).fault
             /\ p[1] \in DOMAIN monitoring_tasks'
             /\ p[2] \in DOMAIN monitoring_tasks'[p[1]]
             /\ monitoring_tasks'[p[1]][p[2]].fault) =>
                /\ DOMAIN monitoring_tasks' = DOMAIN monitoring_tasks
                /\ \A v \in DOMAIN monitoring_tasks :
                      Handles(monitoring_tasks', v)
                          = Handles(monitoring_tasks, v)
                /\ \A q \in Places \ {p} :
                      monitoring_tasks'[q[1]][q[2]] = TaskAt(q[1], q[2])
                /\ monitoring_tasks'[p[1]][p[2]].pc \in Finished
                /\ detached' = detached
      ]_vars

\* C4 witness: one loop of user 101 has ended by a fault; the other one has
\* sent an update and awaits the send of the next
C4_Witness ==
    /\ Running(101)
    /\ Len(monitoring_tasks[101]) = 2
    /\ monitoring_tasks[101][1].fault
    /\ monitoring_tasks[101][2].pc = "send"
    /\ monitoring_tasks[101][2].b = "value"
    /\ out = Msg(101, StatusText, format_token(monitoring_tasks[101][2].token),
                 "Error", "Error", 0, 0)

\* C5 (as claimed): when the send of a status update fails, the loop goes on
\* to its next iteration and awaits ping_server again.
C5_DeliveryFailureContinues ==
    [][\A u \in Users : \A i \in 1..MaxTasks :
          send_fail(u, i) => monitoring_tasks'[u][i].pc = "ping"
      ]_vars

\* C6 (as claimed): a running session has at most one handle per token value.
C6_OneHandlePerToken ==
    \A u \in DOMAIN monitoring_tasks :
        \A i, j \in DOMAIN monitoring_tasks[u] :
            monitoring_tasks[u][i].token = monitoring_tasks[u][j].token
                => i = j

\* The entries of a submitted text, said without reference to the parsing:
\* a line begins at the first character and after each newline and ends
\* before the next newline; an entry is a line with a non-whitespace
\* character, cut from its first to its last such character.
LineStarts(text) ==
    {1} \cup {i + 1 : i \in {j \in 1..Len(text) : text[j] = "\n"}}

LineEnd(text, lo) ==
    LET nl == {j \in lo..Len(text) : text[j] = "\n"}
    IN IF nl = {} THEN Len(text)
       ELSE (CHOOSE j \in nl : \A k \in nl : j <= k) - 1

Inked(text, lo) == {k \in lo..LineEnd(text, lo) : text[k] \notin Whitespace}

EntryStarts(text) == {lo \in LineStarts(text) : Inked(text, lo) # {}}

Entry(text, lo) ==
    LET ink == Inked(text, lo)
    IN SubSeq(text, CHOOSE k \in ink : \A m \in ink : k <= m,
                    CHOOSE k \in ink : \A m \in ink : m <= k)

Entries(text) ==
    LET S == EntryStarts(text)
    IN [j \in 1..Cardinality(S) |->
           Entry(text,
                 CHOOSE lo \in S : Cardinality({x \in S : x < lo}) = j - 1)]

\* C7: after add, list returns the prior entries followed by the submitted
\* non-empty, trimmed entries in submission order, duplicates kept, and the
\* reported count and total are the number added and the new length; a
\* submission without an entry is answered "no valid tokens" and changes no
\* registry.  No other user's list changes.
C7_AddAppends ==
    [][\A u \in Users :
          (conv[u] = AWAITING_TOKENS /\ process_tokens(u, out'.in_text)) =>
             LET entries == Entries(out'.in_text)
             IN /\ \A v \in Users \ {u} :
                      TokensOf(user_tokens', v) = TokensOf(user_tokens, v)
                /\ IF entries = <<>>
                   THEN /\ user_tokens' = user_tokens
                        /\ out'.text = NoValidText
                   ELSE /\ TokensOf(user_tokens', u)
                              = TokensOf(user_tokens, u) \o entries
                        /\ out'.text = AddedText
                        /\ out'.n = Len(entries)
                        /\ out'.total = Len(TokensOf(user_tokens', u))
                /\ out'.to = u
      ]_vars

\* C7 witness: a text with a padded entry and an empty line was added after
\* two earlier entries: one entry added, three in the list
C7_Witness ==
    /\ out.text = AddedText
    /\ out.in_text = <<" ", "a", "\n">>
    /\ out.n = 1
    /\ out.total = 3
    /\ user_tokens[out.to] = <<LongToken, ShortToken, <<"a">> >>

\* C8: remove with an index outside 0 <= index < length (a negative one, an
\* empty or never created list) changes no user's list and answers "invalid
\* selection"; with an index in range it deletes the entry at that position
\* and keeps the others in their order.  No other user's list changes.
C8_RemoveByIndex ==
    [][\A u \in Users : \A index \in -1..MaxTokens :
          handle_token_actions(u, index) =>
             LET old == TokensOf(user_tokens, u)
                 new == TokensOf(user_tokens', u)
             IN /\ \A v \in Users \ {u} :
                      TokensOf(user_tokens', v) = TokensOf(user_tokens, v)
                /\ IF 0 <= index /\ index < Len(old)
                   THEN /\ Len(new) = Len(old) - 1
                        /\ \A k \in 1..Len(new) :
                              new[k] = IF k <= index THEN old[k]
                                       ELSE old[k + 1]
                        /\ out'.text = RemovedText
                   ELSE /\ new = old
                        /\ out' = Plain(u, InvalidText)
      ]_vars

\* C8 witness: an index out of range was refused for a user with two entries
C8_Witness ==
    /\ out = Plain(101, InvalidText)
    /\ TokensOf(user_tokens, 101) = <<LongToken, ShortToken>>
    /\ 202 \notin DOMAIN user_tokens

\* C9 (as claimed): with every remote call coming back absent, every status
\* update sent carries "Error" in both fields and no loop of a running
\* session (none of them is cancelled) has ended.
C9_AbsentLoopNeverEnds ==
    /\ out.text = StatusText => (out.a = "Error" /\ out.b = "Error")
    /\ \A p \in Places : TaskAt(p[1], p[2]).pc \notin Finished

\* the tokens the loops of u's session poll, in the order of the handles
Monitored(mt, u) ==
    [i \in DOMAIN TokensOf(mt, u) |-> TokensOf(mt, u)[i].token]

\* C10: startMonitoring on an Idle user spawns one loop per entry of the
\* user's list as it is on that step, in order, each for that entry's token
\* and not yet run; a step that changes a list (add, remove) changes no
\* task; and from start to stop the tokens polled for a user stay the ones
\* of the snapshot.
C10_SnapshotAtStart ==
    [][\A u \in Users :
          /\ (~Running(u) /\ start_monitoring(u)) =>
                /\ u \in DOMAIN monitoring_tasks'
                /\ monitoring_tasks'[u]
                      = [i \in DOMAIN TokensOf(user_tokens, u) |->
                            NewTask(u, TokensOf(user_tokens, u)[i])]
                /\ detached' = detached
          /\ TokensOf(user_tokens', u) # TokensOf(user_tokens, u) =>
                /\ monitoring_tasks' = monitoring_tasks
                /\ detached' = detached
          /\ (Running(u) /\ u \in DOMAIN monitoring_tasks') =>
                Monitored(monitoring_tasks', u) = Monitored(monitoring_tasks, u)
      ]_vars

\* C10 witness: a session started on two entries polls both tokens while the
\* list, after one remove and one add, holds other entries
C10_Witness ==
    /\ Running(101)
    /\ Monitored(monitoring_tasks, 101) = <<ShortToken, ShortToken>>
    /\ TokensOf(user_tokens, 101) = <<ShortToken, LongToken>>
    /\ \E i \in 1..2 : monitoring_tasks[101][i].pc = "send"

\* C11: startMonitoring on an Idle user without tokens answers "started" and
\* leaves the user Running with an empty list of handles and no task
\* created; while that session lasts its list stays empty (also over add),
\* startMonitoring answers "already running" and spawns nothing, and
\* stopMonitoring answers "stopped", cancels nothing and leaves the user
\* Idle.
C11_ZeroTokenSession ==
    [][\A u \in Users :
          /\ (~Running(u) /\ TokensOf(user_tokens, u) = <<>>
                 /\ start_monitoring(u)) =>
                /\ u \in DOMAIN monitoring_tasks'
                /\ monitoring_tasks'[u] = <<>>
                /\ detached' = detached
                /\ out' = Plain(u, StartedText)
          /\ (Running(u) /\ TokensOf(monitoring_tasks, u) = <<>>) =>
                /\ u \in DOMAIN monitoring_tasks' =>
                      monitoring_tasks'[u] = <<>>
                /\ start_monitoring(u) =>
                      /\ monitoring_tasks' = monitoring_tasks
                      /\ detached' = detached
                      /\ out' = Plain(u, AlreadyText)
                /\ stop_monitoring(u) =>
                      /\ u \notin DOMAIN monitoring_tasks'
                      /\ detached' = detached
                      /\ out' = Plain(u, StoppedText)
      ]_vars

\* C11 witness: "already running" was answered to a user whose session was
\* started on an empty list and who has registered two tokens since
C11_Witness ==
    /\ out = Plain(101, AlreadyText)
    /\ Running(101)
    /\ monitoring_tasks[101] = <<>>
    /\ Len(TokensOf(user_tokens, 101)) = 2
    /\ detached = EmptyBag

\* the redacted form of a token: an ellipsis and its last six characters
Redacted(token) == <<".", ".", ".">> \o Suffix(token, 6)

\* C12 (as claimed): the token shown in a status update and in the
\* confirmation of a remove is the redacted form of the token it stands for,
\* and is never the token itself, whatever the token's length.
C12_TokensRedacted ==
    [][/\ \A u \in Users : \A i \in 1..MaxTasks :
             send_ok(u, i) =>
                /\ out'.token = Redacted(TaskAt(u, i).token)
                /\ out'.token # TaskAt(u, i).token
       /\ \A u \in Users : \A index \in 0..(MaxTokens - 1) :
             (index < Len(TokensOf(user_tokens, u))
                /\ handle_token_actions(u, index)) =>
                /\ out'.token = Redacted(TokensOf(user_tokens, u)[index + 1])
                /\ out'.token # TokensOf(user_tokens, u)[index + 1]
      ]_vars

\* C13: the step on which a cancelled loop is resumed (before its first
\* step, or at its ping, position or send) hands no message to the chat API
\* and ends that loop; every loop of a stopped session is marked cancelled
\* and stays suspended where stopMonitoring found it, so it starts no
\* further remote query or send: a task appears among the stopped ones only
\* by stopMonitoring, as it was in the session.
C13_CancellationSilent ==
    [][/\ \A task \in BagToSet(detached) :
             cancelled_error(task) =>
                /\ out' = out
                /\ monitoring_tasks' = monitoring_tasks
                /\ BagCardinality(detached')
                      = BagCardinality(detached) - 1
       /\ \A task \in BagToSet(detached') :
             /\ task.must_cancel
             /\ task.pc \in Suspended
             /\ task.notices = 0
             /\ CopiesIn(task, detached') > CopiesIn(task, detached) =>
                   \E u \in Users :
                      /\ Running(u)
                      /\ stop_monitoring(u)
                      /\ \E i \in DOMAIN monitoring_tasks[u] :
                            task = CancelTask(monitoring_tasks[u][i])
      ]_vars

\* C13 witness: user 101's session of two loops was stopped; one loop waits,
\* cancelled, at its send, the other is gone, and "stopped" is still the
\* last message handed to the chat API
C13_Witness ==
    /\ out = Plain(101, StoppedText)
    /\ ~Running(101)
    /\ TokensOf(user_tokens, 101) = <<ShortToken, ShortToken>>
    /\ BagCardinality(detached) = 1
    /\ \E task \in BagToSet(detached) :
          task.user_id = 101 /\ task.pc = "send" /\ task.must_cancel

\* no loop of a stopped session of u is left
Gone(u) == \A task \in BagToSet(detached) : task.user_id # u

\* C14: under the scheduling of the event loop, whenever u has no session,
\* eventually every loop of u's stopped sessions has ended, unless u has
\* started a session again by then; no remote call or send needs to return
\* for that.
C14_StoppedLoopsEnd ==
    \A u \in Users : (~Running(u)) ~> (Running(u) \/ Gone(u))

\* C14 witness: user 101's session was stopped while one of its loops
\* awaited ping_server and another get_position
C14_Witness ==
    /\ ~Running(101)
    /\ out = Plain(101, StoppedText)
    /\ \E t1, t2 \in BagToSet(detached) :
          /\ t1.user_id = 101 /\ t1.pc = "ping"
          /\ t2.user_id = 101 /\ t2.pc = "position"

\* the places whose task is another one after the step
Stepped == {p \in Places : p[1] \in DOMAIN monitoring_tasks'
                             /\ monitoring_tasks'[p[1]][p[2]] # TaskAt(p[1], p[2])}

\* C15: a step moves at most one loop, and a loop moves only along
\* first step -> ping -> position -> send -> ping: the position query
\* follows every return of the ping, an absent one too; the send follows
\* the position query; the next ping follows the completed send, which is
\* the one step that hands the loop's status update, addressed to its
\* user, to the chat API; a loop that has ended moves no more.
C15_IterationOrder ==
    [][/\ Cardinality(Stepped) <= 1
       /\ \A p \in Stepped :
             LET old == TaskAt(p[1], p[2])
                 new == monitoring_tasks'[p[1]][p[2]]
             IN /\ old.pc = "created" => new.pc = "ping"
                /\ old.pc = "ping" => new.pc = "position"
                /\ old.pc = "position" => new.pc \in {"send", "exception"}
                /\ old.pc = "send" => new.pc \in {"ping", "exception"}
                /\ old.pc \in Suspended
                /\ (old.pc = "send" /\ new.pc = "ping") =>
                      out' = Msg(p[1], StatusText, format_token(old.token),
                                 old.a, old.b, 0, 0)
                /\ ~(old.pc = "send" /\ new.pc = "ping") => out' = out
       /\ (out' # out /\ out'.text = StatusText) =>
             \E p \in Stepped : TaskAt(p[1], p[2]).pc = "send"
       /\ \A u \in Users : \A i \in 1..MaxTasks :
             ping_return(u, i, NoneValue) =>
                monitoring_tasks'[u][i].pc = "position"
      ]_vars

\* C15 witness: the first loop of user 101 has sent an update made of an
\* absent ping and a position, and awaits the position query of a later
\* iteration, while the second loop awaits the send of its update
C15_Witness ==
    /\ Running(101)
    /\ Len(monitoring_tasks[101]) = 2
    /\ monitoring_tasks[101][1].token = LongToken
    /\ monitoring_tasks[101][2].token = ShortToken
    /\ out = Msg(101, StatusText, format_token(LongToken),
                 "Error", "value", 0, 0)
    /\ monitoring_tasks[101][1].pc = "position"
    /\ monitoring_tasks[101][2].pc = "send"

\* every loop of u's session has ended by a fault
AllFaulted(u) ==
    /\ Running(u)
    /\ monitoring_tasks[u] # <<>>
    /\ \A i \in DOMAIN monitoring_tasks[u] : monitoring_tasks[u][i].fault

\* C16: a user stops being Running only on a step of stopMonitoring for
\* that user; in particular a session of which one loop, or every loop, has
\* ended by a fault stays Running with its handles over every other step,
\* and startMonitoring on it answers "already running" and creates no task.
C16_RunningUntilStop ==
    [][\A u \in Users :
          /\ (Running(u) /\ u \notin DOMAIN monitoring_tasks') =>
                stop_monitoring(u)
          /\ (Running(u) /\ \E i \in DOMAIN monitoring_tasks[u] :
                                monitoring_tasks[u][i].fault) =>
                /\ ~stop_monitoring(u) =>
                      /\ u \in DOMAIN monitoring_tasks'
                      /\ Handles(monitoring_tasks', u)
                            = Handles(monitoring_tasks, u)
                /\ start_monitoring(u) =>
                      /\ monitoring_tasks' = monitoring_tasks
                      /\ detached' = detached
                      /\ out' = Plain(u, AlreadyText)
      ]_vars

\* C16 witness: both loops of user 101's session have ended by a fault and
\* the start that followed was answered "already running"
C16_Witness ==
    /\ AllFaulted(101)
    /\ Len(monitoring_tasks[101]) = 2
    /\ out = Plain(101, AlreadyText)

\* the step leaves the token sequence of every user as it was
SameTokens == \A v \in Users : TokensOf(user_tokens', v) = TokensOf(user_tokens, v)

\* C17: startMonitoring, stopMonitoring and every step of a loop (its first
\* step, a return of ping or position, a send that succeeds or fails, the
\* resumption of a cancelled loop) leave the token sequence of every user
\* as it was; a step that changes a sequence is an add of at least one
\* entry, which appends, or a remove with an index in range, which deletes
\* one entry, and no such step changes a task.
C17_MonitoringKeepsRegistry ==
    [][/\ \A u \in Users :
             (start_monitoring(u) \/ stop_monitoring(u)) => SameTokens
       /\ (monitoring_tasks' # monitoring_tasks \/ detached' # detached) =>
             SameTokens
       /\ \A u \in Users :
             LET old == TokensOf(user_tokens, u)
                 new == TokensOf(user_tokens', u)
             IN new # old =>
                   \/ /\ out'.text = AddedText
                      /\ Len(new) > Len(old)
                      /\ SubSeq(new, 1, Len(old)) = old
                   \/ /\ out'.text = RemovedText
                      /\ \E index \in 0..(Len(old) - 1) :
                            new = Pop(old, index)
      ]_vars

\* C17 witness: user 101 has stopped a session started on two tokens; its
\* first loop is gone, its second loop still waits, cancelled, at its ping,
\* and the two tokens are registered as before
C17_Witness ==
    /\ out = Plain(101, StoppedText)
    /\ ~Running(101)
    /\ TokensOf(user_tokens, 101) = <<LongToken, ShortToken>>
    /\ detached = SetToBag({[NewTask(101, ShortToken) EXCEPT
                                !.pc = "ping", !.must_cancel = TRUE]})

\* the step leaves everything of the users other than u as it was: their
\* token sequences and keys, their conversations, their sessions with every
\* task of them, and their cancelled tasks still to be resumed
OthersKept(u) ==
    \A v \in Users \ {u} :
        /\ (v \in DOMAIN user_tokens') = (v \in DOMAIN user_tokens)
        /\ TokensOf(user_tokens', v) = TokensOf(user_tokens, v)
        /\ conv'[v] = conv[v]
        /\ (v \in DOMAIN monitoring_tasks') = (v \in DOMAIN monitoring_tasks)
        /\ TokensOf(monitoring_tasks', v) = TokensOf(monitoring_tasks, v)
        /\ \A task \in BagToSet(detached) \cup BagToSet(detached') :
              task.user_id = v =>
                 CopiesIn(task, detached') = CopiesIn(task, detached)

\* C18: a command of user u (the add prompt and its cancel, add, remove,
\* startMonitoring, stopMonitoring) leaves everything of every other user
\* as it was and answers to u; every task of u's session is a loop for u,
\* and the status update a loop of u's session sends is addressed to u.
C18_UsersIsolated ==
    [][/\ \A u \in Users :
             (\/ add_tokens_click(u)
              \/ cancel(u)
              \/ (conv[u] = AWAITING_TOKENS /\ process_tokens(u, out'.in_text))
              \/ \E index \in -1..MaxTokens : handle_token_actions(u, index)
              \/ start_monitoring(u)
              \/ stop_monitoring(u)) =>
                /\ OthersKept(u)
                /\ out'.to = u
       /\ \A u \in DOMAIN monitoring_tasks' :
             \A i \in DOMAIN monitoring_tasks'[u] :
                monitoring_tasks'[u][i].user_id = u
       /\ \A u \in Users : \A i \in 1..MaxTasks :
             send_ok(u, i) => (out'.to = u /\ OthersKept(u))
      ]_vars

\* C18 witness: user 101, whose stopped session still has a cancelled loop
\* to be resumed, has just removed a token, while the loop of user 202's
\* session awaits the send of an update and 202's token is registered
C18_Witness ==
    /\ out = Msg(101, RemovedText, format_token(ShortToken), "", "", 0, 0)
    /\ ~Running(101)
    /\ \E task \in BagToSet(detached) : task.user_id = 101
    /\ Running(202)
    /\ Len(monitoring_tasks[202]) = 1
    /\ monitoring_tasks[202][1].pc = "send"
    /\ TokensOf(user_tokens, 202) = <<LongToken>>

====
